---- MODULE Spec2Model ----
(***************************************************************************)
(* Model of the WebSocket transcription server (services/websocket-server, *)
(* src/unnamed/part_002): the session registry, the per-connection message *)
(* handlers, the audio chunk buffer and its flushes to the engine.         *)
(*                                                                         *)
(* JavaScript runs one handler at a time until it reaches an await on real *)
(* I/O (the engine calls sendMessage and generateContent).  One action of  *)
(* this model is one such run: a ws event handler up to its first engine   *)
(* call, or the continuation that runs when an engine call settles.  The   *)
(* continuation of an awaiting handleStopCommand is a microtask queued by  *)
(* the return of processAudioChunks: it is a step of its own that runs     *)
(* before any other event (Draining).                                      *)
(*                                                                         *)
(* outbound[c] is the sequence of ws.send calls made on connection c's     *)
(* socket, in call order.  Text is a sequence of one-character strings.    *)
(***************************************************************************)
EXTENDS Integers, Sequences, FiniteSets, TLC

\* ---------------------------------------------------------------- bounds
MaxAudio == 6
MaxCommands == 3
MaxMultiAudio == 1
MaxFragments == 2
MaxRunning == 2
MaxLen == 3

\* ------------------------------------------------------ program constants
FlushThreshold == 5

Conns == {"c1", "c2"}
SessionIds == {"id1", "id2"}
None == "none"

\* language codes a setLanguage command may carry; "" is a missing language
DefaultLanguage == "en"
Languages == {"en", "es"}

SP == " "
NL == "\n"
\* the white space characters (what \s matches and trim strips), among those
\* of the model's texts
Whitespace == {SP, NL}
\* raw texts the engine may return for a transcription / a translation
Transcripts == {<<>>, <<SP, NL>>, <<SP, "h", "i", NL>>}
Translations == {<<"h", "o", "l", "a", NL>>}

TranscriptionErrorText ==
  <<"A","u","d","i","o"," ","p","r","o","c","e","s","s","i","n","g"," ",
    "e","r","r","o","r","."," ","P","l","e","a","s","e"," ","t","r","y"," ",
    "a","g","a","i","n",".">>
TranslationErrorText ==
  <<"T","r","a","n","s","l","a","t","i","o","n"," ","e","r","r","o","r","."," ",
    "P","l","e","a","s","e"," ","t","r","y"," ","a","g","a","i","n",".">>

\* the texts that the engine services return in place of a transcript
LivePlaceholder ==
  <<"T","h","i","s"," ","i","s"," ","a"," ","f","a","l","l","b","a","c","k",
    " ","t","r","a","n","s","c","r","i","p","t","i","o","n","."," ","T","h",
    "e"," ","G","e","m","i","n","i"," ","L","i","v","e"," ","A","P","I"," ",
    "e","n","c","o","u","n","t","e","r","e","d"," ","a","n"," ","e","r","r",
    "o","r"," ","p","r","o","c","e","s","s","i","n","g"," ","y","o","u","r",
    " ","a","u","d","i","o",".">>
GeminiPlaceholder ==
  <<"T","h","i","s"," ","i","s"," ","a"," ","f","a","l","l","b","a","c","k",
    " ","t","r","a","n","s","c","r","i","p","t","i","o","n","."," ","T","h",
    "e"," ","G","e","m","i","n","i"," ","A","P","I"," ","e","n","c","o","u",
    "n","t","e","r","e","d"," ","a","n"," ","e","r","r","o","r"," ","p","r",
    "o","c","e","s","s","i","n","g"," ","y","o","u","r"," ","a","u","d","i",
    "o",".">>

\* ------------------------------------------------------- pure functions
\* String.prototype.trimStart / trimEnd: white space is stripped
RECURSIVE TrimStart(_)
TrimStart(s) ==
  IF s # <<>> /\ Head(s) \in Whitespace THEN TrimStart(Tail(s)) ELSE s

RECURSIVE TrimEnd(_)
TrimEnd(s) ==
  IF s # <<>> /\ s[Len(s)] \in Whitespace THEN TrimEnd(SubSeq(s, 1, Len(s) - 1)) ELSE s

\* String.prototype.trim
Trim(s) == TrimEnd(TrimStart(s))

\* Buffer.concat(chunks): the fragments' bytes, in buffer order
RECURSIVE BufferConcat(_)
BufferConcat(chunks) ==
  IF chunks = <<>> THEN <<>> ELSE Head(chunks) \o BufferConcat(Tail(chunks))

\* ------------------------------------------------------------- messages
SessionMsg(id) == [type |-> "session", sessionId |-> id]
StartedMsg == [type |-> "started"]
StoppedMsg == [type |-> "stopped"]
LanguageSetMsg(l) == [type |-> "languageSet", language |-> l]
TranscriptionMsg(t) == [type |-> "transcription", text |-> t, error |-> FALSE]
TranscriptionErrorMsg ==
  [type |-> "transcription", text |-> TranscriptionErrorText, error |-> TRUE]
TranslationMsg(t, src, l) ==
  [type |-> "translation", text |-> t, sourceText |-> src,
   targetLanguage |-> l, error |-> FALSE]
TranslationErrorMsg(src, l) ==
  [type |-> "translation", text |-> TranslationErrorText, sourceText |-> src,
   targetLanguage |-> l, error |-> TRUE]
ErrorMsg(e) == [type |-> "error", error |-> e]

\* ------------------------------------------------------ inbound frames
\* a frame's bytes are its characters under toString(), after its first
\* character a number naming the frame; LBrace is the first character that
\* message.toString().startsWith('{') accepts
LBrace == "{"
\* first characters of frames that do not start with '{'
AudioFirstChars == {"a", "b"}

\* what JSON.parse(message.toString()) yields: a command object, or a
\* SyntaxError (valid = FALSE).  language "" is an absent language field.
Command(type, language) == [valid |-> TRUE, type |-> type, language |-> language]
SyntaxError == [valid |-> FALSE, type |-> "", language |-> ""]

\* a text frame carrying a JSON command
CommandFrame(type, language) ==
  [isString |-> TRUE, data |-> <<LBrace>>, json |-> Command(type, language)]
\* a text frame that is not JSON
MalformedFrame == [isString |-> TRUE, data |-> <<LBrace>>, json |-> SyntaxError]
\* a binary frame: audio bytes, the first one b, the n-th frame of the run
AudioFrame(b, n) == [isString |-> FALSE, data |-> <<b, n>>, json |-> SyntaxError]
NoFrame == [isString |-> FALSE, data |-> <<>>, json |-> SyntaxError]
\* response.text() of a settled sendMessage call, as the input of its
\* continuation
Response(t) == [isString |-> TRUE, data |-> t, json |-> SyntaxError]

CommandFrames ==
  {CommandFrame("start", ""), CommandFrame("stop", ""), CommandFrame("bogus", ""),
   CommandFrame("setLanguage", "")}
  \cup {CommandFrame("setLanguage", l) : l \in Languages}
  \cup {MalformedFrame}

\* the binary frames that IsCommandFrame takes for commands
BraceFrames == {AudioFrame(LBrace, 0)}

\* ---------------------------------------------------------------- state
VARIABLES
  activeSessions, \* the Map: session id -> session object (None: no entry)
  session,        \* the session objects, named by the connection that made them
  sessionId,      \* handleConnection's sessionId, captured by c's handlers
  wsState,        \* "new" (not yet connected), "open", "errored", "closed"
  outbound,       \* ws.send calls on each connection's socket, in order
  flights,        \* suspended processAudioChunks calls (one per engine call)
  nChats,         \* chat handles created so far (startChat)
  appended,       \* history: fragments pushed to each session's audioChunks
  submitted,      \* history: payloads each session sent to the engine
  nAudio,         \* frames received so far that do not start with '{'
  nCommands,      \* frames received so far that are strings or start with '{'
  stopSeen,       \* history: a stop reached the session while it was
                  \* transcribing, and no start command has since
  event,          \* the handler run by the last step
  gateway,        \* a call of the translators' transcribeAudio or translate:
                  \* its inputs, how far it has got and its outcome
  stream          \* a call of the translators' translateStream: textBuffer,
                  \* the generators it is iterating, the pushes it made

vars == <<activeSessions, session, sessionId, wsState, outbound, flights,
          nChats, appended, submitted, nAudio, nCommands, stopSeen, event,
          gateway, stream>>

\* the state of the WebSocket server
serverVars == <<activeSessions, session, sessionId, wsState, outbound, flights,
                nChats, appended, submitted, nAudio, nCommands, stopSeen, event>>

NewSession ==
  [targetLanguage |-> DefaultLanguage, audioChunks |-> <<>>,
   isTranscribing |-> FALSE, geminiChat |-> 0]

\* the part of the state the handlers read and write
World ==
  [activeSessions |-> activeSessions, session |-> session, outbound |-> outbound,
   flights |-> flights, nChats |-> nChats, appended |-> appended,
   submitted |-> submitted]

Event(kind, c, msg, ok) == [kind |-> kind, conn |-> c, msg |-> msg, ok |-> ok]

\* session.ws.send(JSON.stringify(msg)); the session object o holds the socket
\* of the connection that created it
Send(w, o, msg) == [w EXCEPT !.outbound[o] = Append(@, msg)]

\* --------------------------------------------------------------- handlers
\* mutant: the buffer is not cleared when its contents are submitted
processAudioChunks_keepsBuffer(w, o, by) ==
  LET chunks == w.session[o].audioChunks IN
  IF Len(chunks) = 0 THEN [w |-> w, awaiting |-> FALSE]
  ELSE
    LET combinedAudio == BufferConcat(chunks)
        n == Len(w.submitted[o]) + 1
    IN
    IF w.session[o].geminiChat = 0
    THEN [w |-> Send(w, o, TranscriptionErrorMsg), awaiting |-> FALSE]
    ELSE [w |-> [w EXCEPT
                   !.submitted[o] = Append(@, [payload |-> combinedAudio,
                                               count |-> Len(chunks), by |-> by]),
                   !.flights = @ \cup {[n |-> n, obj |-> o, by |-> by,
                                        stage |-> "transcribe",
                                        text |-> <<>>, lang |-> ""]}],
          awaiting |-> TRUE]

\* processAudioChunks up to its await of sendMessage.  awaiting = FALSE: the
\* call returned without suspending.  The payload is recorded as the bytes of
\* combinedAudio; the code sends them to the engine in base64.
processAudioChunks(w, o, by) ==
  LET chunks == w.session[o].audioChunks IN
  IF Len(chunks) = 0 THEN [w |-> w, awaiting |-> FALSE]
  ELSE
    LET combinedAudio == BufferConcat(chunks)
        n == Len(w.submitted[o]) + 1
        cleared == [w EXCEPT !.session[o].audioChunks = <<>>]
    IN
    IF w.session[o].geminiChat = 0
    THEN \* session.geminiChat.sendMessage throws a TypeError inside the try
         [w |-> Send(cleared, o, TranscriptionErrorMsg), awaiting |-> FALSE]
    ELSE [w |-> [cleared EXCEPT
                   !.submitted[o] = Append(@, [payload |-> combinedAudio,
                                               count |-> Len(chunks), by |-> by]),
                   !.flights = @ \cup {[n |-> n, obj |-> o, by |-> by,
                                        stage |-> "transcribe",
                                        text |-> <<>>, lang |-> ""]}],
          awaiting |-> TRUE]

\* mutant: a stop leaves the buffer as it is
stopTail_keepsBuffer(w, o) ==
  Send([w EXCEPT !.session[o].isTranscribing = FALSE], o, StoppedMsg)

\* handleStopCommand from "Update session state" on
stopTail(w, o) ==
  Send([w EXCEPT !.session[o].isTranscribing = FALSE,
                 !.session[o].audioChunks = <<>>], o, StoppedMsg)

\* mutant: the flush is started but not awaited
handleStopCommand_noAwait(w, o) ==
  IF ~w.session[o].isTranscribing THEN w
  ELSE IF Len(w.session[o].audioChunks) > 0
       THEN stopTail(processAudioChunks(w, o, "stop").w, o)
       ELSE stopTail(w, o)

\* mutant: a stop is not checked against isTranscribing
handleStopCommand_alwaysStops(w, o) ==
  IF Len(w.session[o].audioChunks) > 0
  THEN LET r == processAudioChunks(w, o, "stop") IN
       IF r.awaiting THEN r.w ELSE stopTail(r.w, o)
  ELSE stopTail(w, o)

handleStopCommand(w, o) ==
  IF ~w.session[o].isTranscribing THEN w
  ELSE IF Len(w.session[o].audioChunks) > 0
       THEN LET r == processAudioChunks(w, o, "stop") IN
            IF r.awaiting THEN r.w ELSE stopTail(r.w, o)
       ELSE stopTail(w, o)

\* mutant: a start is not checked against isTranscribing
handleStartCommand_restarts(w, o, engineOk) ==
  LET w1 == [w EXCEPT !.session[o].isTranscribing = TRUE,
                      !.session[o].audioChunks = <<>>] IN
  IF engineOk
  THEN [w |-> Send([w1 EXCEPT !.session[o].geminiChat = w.nChats + 1,
                              !.nChats = @ + 1], o, StartedMsg),
        thrown |-> FALSE]
  ELSE [w |-> [w1 EXCEPT !.session[o].isTranscribing = FALSE], thrown |-> TRUE]

\* mutant: `started` is sent before the engine context is established
handleStartCommand_startedFirst(w, o, engineOk) ==
  IF w.session[o].isTranscribing THEN [w |-> w, thrown |-> FALSE]
  ELSE
    LET w1 == Send([w EXCEPT !.session[o].isTranscribing = TRUE,
                             !.session[o].audioChunks = <<>>], o, StartedMsg) IN
    IF engineOk
    THEN [w |-> [w1 EXCEPT !.session[o].geminiChat = w.nChats + 1,
                           !.nChats = @ + 1],
          thrown |-> FALSE]
    ELSE [w |-> [w1 EXCEPT !.session[o].isTranscribing = FALSE], thrown |-> TRUE]

\* engineOk: getGenerativeModel and startChat return normally
\* mutant: a failed start leaves the session transcribing
handleStartCommand_failsTranscribing(w, o, engineOk) ==
  IF w.session[o].isTranscribing THEN [w |-> w, thrown |-> FALSE]
  ELSE
    LET w1 == [w EXCEPT !.session[o].isTranscribing = TRUE,
                        !.session[o].audioChunks = <<>>] IN
    IF engineOk
    THEN [w |-> Send([w1 EXCEPT !.session[o].geminiChat = w.nChats + 1,
                                !.nChats = @ + 1], o, StartedMsg),
          thrown |-> FALSE]
    ELSE [w |-> w1, thrown |-> TRUE]

handleStartCommand(w, o, engineOk) ==
  IF w.session[o].isTranscribing THEN [w |-> w, thrown |-> FALSE]
  ELSE
    LET w1 == [w EXCEPT !.session[o].isTranscribing = TRUE,
                        !.session[o].audioChunks = <<>>] IN
    IF engineOk
    THEN [w |-> Send([w1 EXCEPT !.session[o].geminiChat = w.nChats + 1,
                                !.nChats = @ + 1], o, StartedMsg),
          thrown |-> FALSE]
    ELSE [w |-> [w1 EXCEPT !.session[o].isTranscribing = FALSE], thrown |-> TRUE]

\* mutant: changing the language restarts the buffer
handleSetLanguageCommand_resets(w, o, command) ==
  IF command.language = "" THEN w
  ELSE Send([w EXCEPT !.session[o].targetLanguage = command.language,
                      !.session[o].audioChunks = <<>>],
            o, LanguageSetMsg(command.language))

handleSetLanguageCommand(w, o, command) ==
  IF command.language = "" THEN w
  ELSE Send([w EXCEPT !.session[o].targetLanguage = command.language],
            o, LanguageSetMsg(command.language))

\* mutant: the flush waits for more than FlushThreshold fragments
handleAudioData_lateFlush(w, o, audioData) ==
  IF ~w.session[o].isTranscribing THEN w
  ELSE
    LET w1 == [w EXCEPT !.session[o].audioChunks = Append(@, audioData),
                        !.appended[o] = Append(@, audioData)] IN
    IF Len(w1.session[o].audioChunks) > FlushThreshold
    THEN processAudioChunks(w1, o, "audio").w
    ELSE w1

\* mutant: fragments are ignored while an engine call of the session is in
\* flight
handleAudioData_blocked(w, o, audioData) ==
  IF ~w.session[o].isTranscribing
     \/ \E f \in w.flights : f.obj = o /\ f.stage = "transcribe"
  THEN w
  ELSE
    LET w1 == [w EXCEPT !.session[o].audioChunks = Append(@, audioData),
                        !.appended[o] = Append(@, audioData)] IN
    IF Len(w1.session[o].audioChunks) >= FlushThreshold
    THEN processAudioChunks(w1, o, "audio").w
    ELSE w1

handleAudioData(w, o, audioData) ==
  IF ~w.session[o].isTranscribing THEN w
  ELSE
    LET w1 == [w EXCEPT !.session[o].audioChunks = Append(@, audioData),
                        !.appended[o] = Append(@, audioData)] IN
    IF Len(w1.session[o].audioChunks) >= FlushThreshold
    THEN processAudioChunks(w1, o, "audio").w
    ELSE w1

\* the handleMessage calls of session o that wait, at `await
\* handleStartCommand`, for their catch block to run
Thrown(w, o) == {f \in w.flights : f.obj = o /\ f.stage = "thrown"}

\* handleStartCommand returned a rejected promise: handleMessage is suspended
\* at its await and its catch block runs in a later microtask
rejected(w, o) ==
  [w EXCEPT !.flights = @ \cup {[n |-> Cardinality(Thrown(w, o)) + 1, obj |-> o,
                                 by |-> "start", stage |-> "thrown",
                                 text |-> <<>>, lang |-> ""]}]

\* the catch block of handleMessage, for the oldest suspended call
caught(w, f) ==
  LET rest == {[g EXCEPT !.n = @ - 1] : g \in Thrown(w, f.obj) \ {f}} IN
  Send([w EXCEPT !.flights = (@ \ Thrown(w, f.obj)) \cup rest],
       f.obj, ErrorMsg("EngineError"))

\* typeof message === 'string' ||
\*   message instanceof Buffer && message.toString().startsWith('{')
IsCommandFrame(m) == m.isString \/ (m.data # <<>> /\ Head(m.data) = LBrace)

\* handleMessage for a session found in the registry
dispatch(w, o, m, engineOk) ==
  IF IsCommandFrame(m)
  THEN IF ~m.json.valid
       THEN \* JSON.parse throws inside the try: the catch runs at once
            Send(w, o, ErrorMsg("SyntaxError"))
       ELSE CASE m.json.type = "start" ->
                   LET r == handleStartCommand(w, o, engineOk) IN
                   IF r.thrown THEN rejected(r.w, o) ELSE r.w
              [] m.json.type = "stop" -> handleStopCommand(w, o)
              [] m.json.type = "setLanguage" -> handleSetLanguageCommand(w, o, m.json)
              [] OTHER -> w
  ELSE handleAudioData(w, o, m.data)

\* processAudioChunks returns to its awaiting caller: handleAudioData has
\* nothing left to do, handleStopCommand resumes in the next microtask
return(w, f) ==
  [w EXCEPT !.flights =
     (@ \ {f}) \cup (IF f.by = "stop"
                     THEN {[f EXCEPT !.stage = "returned", !.text = <<>>, !.lang = ""]}
                     ELSE {})]

\* translateAndSend up to its await of generateContent, called for the
\* transcript text in language lang from flush f, whose transcription message
\* has been sent: modelOk = FALSE is genAI.getGenerativeModel throwing, which
\* the catch of translateAndSend reports before processAudioChunks returns
translateAndSend(w, f, text, lang, modelOk) ==
  IF modelOk
  THEN [w EXCEPT !.flights =
          (@ \ {f}) \cup {[f EXCEPT !.stage = "translate", !.text = text,
                                   !.lang = lang]}]
  ELSE return(Send(w, f.obj, TranslationErrorMsg(text, lang)), f)

\* mutant: a failed engine call ends the transcription
transcribed_failureStops(w, f, ok, transcription, modelOk) ==
  LET o == f.obj IN
  IF ~ok THEN return(Send([w EXCEPT !.session[o].isTranscribing = FALSE],
                          o, TranscriptionErrorMsg), f)
  ELSE IF transcription # <<>> /\ Trim(transcription) # <<>>
       THEN LET w1 == Send(w, o, TranscriptionMsg(Trim(transcription))) IN
            IF w.session[o].targetLanguage # "en"
            THEN translateAndSend(w1, f, Trim(transcription),
                                  w.session[o].targetLanguage, modelOk)
            ELSE return(w1, f)
       ELSE return(w, f)

\* mutant: the translation is requested whatever the target language is
transcribed_alwaysTranslates(w, f, ok, transcription, modelOk) ==
  LET o == f.obj IN
  IF ~ok THEN return(Send(w, o, TranscriptionErrorMsg), f)
  ELSE IF transcription # <<>> /\ Trim(transcription) # <<>>
       THEN translateAndSend(Send(w, o, TranscriptionMsg(Trim(transcription))), f,
                             Trim(transcription), w.session[o].targetLanguage,
                             modelOk)
       ELSE return(w, f)

\* mutant: the transcription is sent whatever the transcript is
transcribed_sendsBlank(w, f, ok, transcription, modelOk) ==
  LET o == f.obj IN
  IF ~ok THEN return(Send(w, o, TranscriptionErrorMsg), f)
  ELSE LET w1 == Send(w, o, TranscriptionMsg(Trim(transcription))) IN
       IF Trim(transcription) # <<>> /\ w.session[o].targetLanguage # "en"
       THEN translateAndSend(w1, f, Trim(transcription),
                             w.session[o].targetLanguage, modelOk)
       ELSE return(w1, f)

\* mutant: the translation is decided with the language the session was
\* created with
transcribed_ignoresSetLanguage(w, f, ok, transcription, modelOk) ==
  LET o == f.obj IN
  IF ~ok THEN return(Send(w, o, TranscriptionErrorMsg), f)
  ELSE IF transcription # <<>> /\ Trim(transcription) # <<>>
       THEN LET w1 == Send(w, o, TranscriptionMsg(Trim(transcription))) IN
            IF DefaultLanguage # "en"
            THEN translateAndSend(w1, f, Trim(transcription), DefaultLanguage,
                                  modelOk)
            ELSE return(w1, f)
       ELSE return(w, f)

\* processAudioChunks after sendMessage settled: ok = FALSE is a rejection,
\* transcription is response.text()
transcribed(w, f, ok, transcription, modelOk) ==
  LET o == f.obj IN
  IF ~ok THEN return(Send(w, o, TranscriptionErrorMsg), f)
  ELSE IF transcription # <<>> /\ Trim(transcription) # <<>>
       THEN LET w1 == Send(w, o, TranscriptionMsg(Trim(transcription))) IN
            IF w.session[o].targetLanguage # "en"
            THEN translateAndSend(w1, f, Trim(transcription),
                                  w.session[o].targetLanguage, modelOk)
            ELSE return(w1, f)
       ELSE return(w, f)

\* mutant: a failed translation is reported by the catch of
\* processAudioChunks
translated_rethrows(w, f, ok, translation) ==
  LET o == f.obj IN
  IF ok THEN return(Send(w, o, TranslationMsg(Trim(translation), f.text, f.lang)), f)
  ELSE return(Send(w, o, TranscriptionErrorMsg), f)

\* translateAndSend after generateContent settled, then processAudioChunks
\* returns
translated(w, f, ok, translation) ==
  LET o == f.obj IN
  IF ok THEN return(Send(w, o, TranslationMsg(Trim(translation), f.text, f.lang)), f)
  ELSE return(Send(w, o, TranslationErrorMsg(f.text, f.lang)), f)

\* handleStopCommand after its await of processAudioChunks
stopResumed(w, f) == stopTail([w EXCEPT !.flights = @ \ {f}], f.obj)

handleClose(w, id) ==
  LET o == w.activeSessions[id] IN
  IF o # None
  THEN [w EXCEPT !.session[o].audioChunks = <<>>,
                 !.session[o].isTranscribing = FALSE,
                 !.session[o].geminiChat = 0,
                 !.activeSessions[id] = None]
  ELSE w

\* ------------------------------------------- translators: transcribeAudio
\* what chat.sendMessage / response.text() of the live path do: resolve with
\* a text, or fail
LiveOutcomes ==
  {[ok |-> TRUE, text |-> t] : t \in Transcripts}
  \cup {[ok |-> FALSE, text |-> <<>>]}

\* what the single-shot path does: model.generateContent resolves with a
\* text ("ok") or rejects ("apiError"), or the request cannot be set up
\* (getGenerativeModel throws: "setupError")
SingleOutcomes ==
  {[kind |-> "ok", text |-> t] : t \in Transcripts}
  \cup {[kind |-> k, text |-> <<>>] : k \in {"apiError", "setupError"}}

\* a call transcribeAudio(audioData, audioFormat) before it starts
\* (production: NODE_ENV is 'production'; isBuffer: audioData is a Buffer;
\* hasFormat: audioFormat is given), with what the engine will do
Call(production, isBuffer, hasFormat, live, single) ==
  [production |-> production, isBuffer |-> isBuffer, hasFormat |-> hasFormat,
   live |-> live, single |-> single,
   pc |-> "idle", tried |-> {}, failed |-> {}, thrown |-> FALSE, text |-> <<>>]

NoCall ==
  [Call(FALSE, FALSE, FALSE, [ok |-> FALSE, text |-> <<>>],
        [kind |-> "apiError", text |-> <<>>]) EXCEPT !.pc = "none"]

\* services/gemini-live transcribeAudio
geminiLiveTranscribeAudio(production, live) ==
  IF live.ok THEN [thrown |-> FALSE, text |-> live.text, failed |-> FALSE]
  ELSE IF ~production
       THEN [thrown |-> FALSE, text |-> LivePlaceholder, failed |-> TRUE]
       ELSE [thrown |-> TRUE, text |-> <<>>, failed |-> TRUE]

\* services/gemini transcribeAudio
geminiTranscribeAudio(production, single) ==
  CASE single.kind = "ok" ->
         [thrown |-> FALSE, text |-> single.text, failed |-> FALSE]
    [] single.kind = "apiError" ->
         [thrown |-> FALSE, text |-> GeminiPlaceholder, failed |-> TRUE]
    [] OTHER ->
         IF ~production
         THEN [thrown |-> FALSE, text |-> GeminiPlaceholder, failed |-> TRUE]
         ELSE [thrown |-> TRUE, text |-> <<>>, failed |-> TRUE]

\* ------------------------------------------------- translators: translate
\* config.supportedLanguages
supportedLanguages ==
  {"ar", "bn", "de", "en", "es", "fr", "gu", "hi", "id", "it",
   "ja", "kn", "ko", "ml", "mr", "nl", "pl", "pt", "ru", "ta",
   "te", "th", "tr", "vi", "cmn"}

\* config.translation.defaultSourceLang
defaultSourceLang == "auto"

\* an argument that is not passed: a language code, a text (texts are
\* sequences)
Undefined == "undefined"
UndefinedText == <<Undefined>>
\* !x for a language code and for a text: true of undefined and of the empty
\* string
Falsy(x) == x = Undefined \/ x = ""
FalsyText(t) == t = UndefinedText \/ t = <<>>

\* validators.isValidLanguage
isValidLanguage(langCode) ==
  IF Falsy(langCode) THEN FALSE ELSE langCode \in supportedLanguages

\* mutant: the source language is not validated
validateTranslationRequest_anySource(params) ==
  LET errors ==
        (IF FalsyText(params.text) THEN <<"Text is required">> ELSE <<>>)
        \o (IF Falsy(params.targetLang) THEN <<"Target language is required">>
            ELSE IF ~isValidLanguage(params.targetLang)
                 THEN <<"Target language is not supported">> ELSE <<>>)
  IN [isValid |-> Len(errors) = 0, errors |-> errors]

\* validators.validateTranslationRequest
validateTranslationRequest(params) ==
  LET errors ==
        (IF FalsyText(params.text) THEN <<"Text is required">> ELSE <<>>)
        \o (IF Falsy(params.targetLang) THEN <<"Target language is required">>
            ELSE IF ~isValidLanguage(params.targetLang)
                 THEN <<"Target language is not supported">> ELSE <<>>)
        \o (IF /\ ~Falsy(params.sourceLang)
               /\ params.sourceLang # "auto"
               /\ ~isValidLanguage(params.sourceLang)
            THEN <<"Source language is not supported">> ELSE <<>>)
  IN [isValid |-> Len(errors) = 0, errors |-> errors]

\* the prompt that translate builds: with or without a "from" language
Prompt(text, targetLang, sourceLang) ==
  IF sourceLang = "auto" \/ sourceLang = defaultSourceLang
  THEN [from |-> None, to |-> targetLang, text |-> text]
  ELSE [from |-> sourceLang, to |-> targetLang, text |-> text]

\* what gemini.generateContent does: resolve with a text, or reject
ContentOutcomes ==
  {[ok |-> TRUE, text |-> t] : t \in Transcripts \cup Translations}
  \cup {[ok |-> FALSE, text |-> <<>>]}

\* a call translate(text, targetLang, sourceLang) before it starts; an
\* undefined sourceLang takes the parameter's default
TranslateCall(text, targetLang, sourceLang, engine) ==
  [text |-> text, targetLang |-> targetLang,
   sourceLang |-> IF sourceLang = Undefined THEN defaultSourceLang ELSE sourceLang,
   engine |-> engine,
   pc |-> "idle", prompts |-> <<>>, thrown |-> FALSE, errors |-> <<>>,
   result |-> <<>>]

\* ------------------------------------------- translators: translateStream
\* the characters of the class [.!?]
Terminators == {".", "!", "?"}

\* mutant: the regular expression without \s*
isComplete_terminatorLast(text) ==
  text # <<>> /\ text[Len(text)] \in Terminators

\* textBuffer.match(/[.!?]\s*$/): some character of the class is followed by
\* whitespace only, up to the end of the text
isComplete(text) ==
  \E i \in 1..Len(text) :
    /\ text[i] \in Terminators
    /\ \A j \in (i + 1)..Len(text) : text[j] \in Whitespace

\* the chunks that inputStream may deliver
Fragments == {<<"a">>, <<SP>>, <<"b", ".", SP>>}

\* the characters of the texts the predicate is tried on, and these texts
Alphabet == {"a", ".", "!", "?", SP, NL}
Texts == UNION {[1..n -> Alphabet] : n \in 0..MaxLen}

\* the chunks that gemini.generateContentStream yields for a prompt, unless
\* it throws before
StreamChunks == <<"x", "y">>

\* translateStream has returned outputStream; no input has arrived.
\* listening: the consumer has attached an 'error' listener to outputStream
\* (the consumer of the README attaches only 'data'); uncaught: an error
\* was thrown out of a handler of the input stream
NewStream ==
  [pc |-> "open", textBuffer |-> <<>>, fragments |-> <<>>, released |-> <<>>,
   running |-> {}, output |-> <<>>, listening |-> FALSE, uncaught |-> FALSE]

NoStream == [NewStream EXCEPT !.pc = "none"]

\* outputStream.push(chunk) / push(null) / emit('error'), in call order
Push(st, item) == [st EXCEPT !.output = Append(@, item)]
EndMarker == [kind |-> "null", unit |-> 0, chunk |-> ""]
ErrorEvent == [kind |-> "error", unit |-> 0, chunk |-> ""]
Chunk(n, c) == [kind |-> "chunk", unit |-> n, chunk |-> c]

\* outputStream.emit('error', error): the listeners are called; an emitter
\* without an 'error' listener throws the error instead, and the handler
\* that called emit ends there
emit(st) ==
  IF st.listening
  THEN Push(st, ErrorEvent)
  ELSE [Push(st, ErrorEvent) EXCEPT !.uncaught = TRUE]

\* the text is put in a prompt and gemini.generateContentStream(prompt) is
\* iterated: by is the handler that waits for it ("data" or "end")
release(st, text, by) ==
  [st EXCEPT !.released = Append(@, text),
             !.running = @ \cup {[n |-> Len(st.released) + 1, by |-> by,
                                   left |-> StreamChunks]}]

\* inputStream.on('data') up to its first await
onData(st, chunk) ==
  LET textBuffer == st.textBuffer \o chunk
      st1 == [st EXCEPT !.fragments = Append(@, chunk)]
  IN
  IF isComplete(textBuffer)
  THEN release([st1 EXCEPT !.textBuffer = <<>>], textBuffer, "data")
  ELSE [st1 EXCEPT !.textBuffer = textBuffer]

\* mutant: at the end of the input a remainder is submitted only if it is a
\* complete sentence
onEnd_dropsIncomplete(st) ==
  LET st1 == [st EXCEPT !.pc = "ended"] IN
  IF isComplete(st.textBuffer)
  THEN release(st1, st.textBuffer, "end")
  ELSE Push(st1, EndMarker)

\* inputStream.on('end') up to its first await, or to its end
onEnd(st) ==
  LET st1 == [st EXCEPT !.pc = "ended"] IN
  IF Len(st.textBuffer) > 0
  THEN release(st1, st.textBuffer, "end")
  ELSE Push(st1, EndMarker)

\* inputStream.on('error'): push(null) is reached only if emit returns
onError(st) ==
  LET st1 == emit([st EXCEPT !.pc = "failed"]) IN
  IF st.listening THEN Push(st1, EndMarker) ELSE st1

\* the for await loop of generator g takes the next chunk
yielded(st, g) ==
  Push([st EXCEPT !.running = (@ \ {g}) \cup {[g EXCEPT !.left = Tail(@)]}],
       Chunk(g.n, Head(g.left)))

\* the for await loop of generator g ends: normally, or (fails) by an error
\* that the catch block emits. The 'end' handler then ends the output
\* stream, unless the emit in its catch block threw (no 'error' listener):
\* the handler's promise rejects and push(null) is never called
finished(st, g, fails) ==
  LET st1 == [st EXCEPT !.running = @ \ {g}]
      st2 == IF fails THEN emit(st1) ELSE st1
  IN
  IF g.by = "end" /\ (fails => st.listening) THEN Push(st2, EndMarker) ELSE st2

\* ---------------------------------------------------------------- actions
ServerInit ==
  /\ activeSessions = [id \in SessionIds |-> None]
  /\ session = [c \in Conns |-> NewSession]
  /\ sessionId = [c \in Conns |-> None]
  /\ wsState = [c \in Conns |-> "new"]
  /\ outbound = [c \in Conns |-> <<>>]
  /\ flights = {}
  /\ nChats = 0
  /\ appended = [c \in Conns |-> <<>>]
  /\ submitted = [c \in Conns |-> <<>>]
  /\ nAudio = 0
  /\ nCommands = 0
  /\ stopSeen = [c \in Conns |-> FALSE]
  /\ event = Event("init", None, NoFrame, TRUE)

\* the server starts; no call of the translators module is under way
Init ==
  /\ ServerInit
  /\ gateway = NoCall
  /\ stream = NoStream

\* the world after a handler ran
Becomes(w) ==
  /\ activeSessions' = w.activeSessions
  /\ session' = w.session
  /\ outbound' = w.outbound
  /\ flights' = w.flights
  /\ nChats' = w.nChats
  /\ appended' = w.appended
  /\ submitted' = w.submitted
  /\ UNCHANGED <<gateway, stream>>

\* a resumed handleStopCommand is queued as a microtask: it runs before any
\* other event is handled
Draining == \E f \in flights : f.stage = "returned"

\* a catch block of handleMessage is queued as a microtask: it runs before
\* the next event of the event loop, but not before the frames that the
\* socket hands to the 'message' listener in the same tick, nor before an
\* 'error' that the socket emits from process.nextTick for that chunk
Pending == \E f \in flights : f.stage = "thrown"

\* mutant: the session id is not sent to the client
handleConnection_silent(c, id) ==
  /\ wsState[c] = "new"
  /\ ~Draining
  /\ ~Pending
  /\ Becomes([World EXCEPT !.activeSessions[id] = c, !.session[c] = NewSession])
  /\ sessionId' = [sessionId EXCEPT ![c] = id]
  /\ wsState' = [wsState EXCEPT ![c] = "open"]
  /\ event' = Event("connection", c, NoFrame, TRUE)
  /\ UNCHANGED <<nAudio, nCommands, stopSeen>>

\* wss.on('connection'): id is the value generateSessionId returns
handleConnection(c, id) ==
  /\ wsState[c] = "new"
  /\ ~Draining
  /\ ~Pending
  /\ Becomes(Send([World EXCEPT !.activeSessions[id] = c,
                                !.session[c] = NewSession], c, SessionMsg(id)))
  /\ sessionId' = [sessionId EXCEPT ![c] = id]
  /\ wsState' = [wsState EXCEPT ![c] = "open"]
  /\ event' = Event("connection", c, NoFrame, TRUE)
  /\ UNCHANGED <<nAudio, nCommands, stopSeen>>

\* ws.on('message')
handleMessage(c, m, engineOk) ==
  /\ wsState[c] = "open"
  /\ ~Draining
  /\ \A f \in flights : f.stage = "thrown" => f.obj = activeSessions[sessionId[c]]
  /\ LET o == activeSessions[sessionId[c]] IN
     /\ Becomes(IF o = None THEN World ELSE dispatch(World, o, m, engineOk))
     /\ stopSeen' =
          IF o = None \/ ~IsCommandFrame(m) \/ ~m.json.valid THEN stopSeen
          ELSE IF m.json.type = "start" THEN [stopSeen EXCEPT ![o] = FALSE]
          ELSE IF m.json.type = "stop" /\ session[o].isTranscribing
               THEN [stopSeen EXCEPT ![o] = TRUE]
          ELSE stopSeen
     /\ event' = Event("message", c, m, TRUE)
  /\ UNCHANGED <<sessionId, wsState>>

ReceiveCommand(c) ==
  /\ nCommands < MaxCommands
  /\ \E m \in CommandFrames \cup BraceFrames, engineOk \in BOOLEAN : handleMessage(c, m, engineOk)
  /\ nCommands' = nCommands + 1
  /\ UNCHANGED nAudio

ReceiveAudio(c) ==
  /\ nAudio < MaxAudio
  /\ handleMessage(c, AudioFrame("a", nAudio + 1), TRUE)
  /\ nAudio' = nAudio + 1
  /\ UNCHANGED nCommands

\* mutant: a close that finds no session reports it on the socket
Close_reportsUnknown(c) ==
  /\ wsState[c] \in {"open", "errored"}
  /\ ~Draining
  /\ ~Pending
  /\ Becomes(IF activeSessions[sessionId[c]] = None
             THEN Send(World, c, ErrorMsg("SessionNotFound"))
             ELSE handleClose(World, sessionId[c]))
  /\ wsState' = [wsState EXCEPT ![c] = "closed"]
  /\ event' = Event("close", c, NoFrame, activeSessions[sessionId[c]] # None)
  /\ UNCHANGED <<sessionId, nAudio, nCommands, stopSeen>>

\* ws.on('close'), also after an 'error'; the event records whether
\* handleClose found a session
Close(c) ==
  /\ wsState[c] \in {"open", "errored"}
  /\ ~Draining
  /\ ~Pending
  /\ Becomes(handleClose(World, sessionId[c]))
  /\ wsState' = [wsState EXCEPT ![c] = "closed"]
  /\ event' = Event("close", c, NoFrame, activeSessions[sessionId[c]] # None)
  /\ UNCHANGED <<sessionId, nAudio, nCommands, stopSeen>>

\* ws.on('error'): handleError calls handleClose; the socket then closes.
\* The event can come (from process.nextTick) before the catch block of a
\* handleMessage call that the same chunk of socket data started.
Error(c) ==
  /\ wsState[c] = "open"
  /\ ~Draining
  /\ \A f \in flights : f.stage = "thrown" => f.obj = activeSessions[sessionId[c]]
  /\ Becomes(handleClose(World, sessionId[c]))
  /\ wsState' = [wsState EXCEPT ![c] = "errored"]
  /\ event' = Event("error", c, NoFrame, TRUE)
  /\ UNCHANGED <<sessionId, nAudio, nCommands, stopSeen>>

\* the engine settles a sendMessage call
TranscriptionSettlesWith(f, ok, t) ==
  /\ f.stage = "transcribe"
  /\ ~Draining
  /\ ~Pending
  /\ \E modelOk \in BOOLEAN : Becomes(transcribed(World, f, ok, t, modelOk))
  /\ event' = Event("transcribed", f.obj, Response(t), ok)
  /\ UNCHANGED <<sessionId, wsState, nAudio, nCommands, stopSeen>>

TranscriptionSettles(f) ==
  \/ \E t \in Transcripts : TranscriptionSettlesWith(f, TRUE, t)
  \/ TranscriptionSettlesWith(f, FALSE, <<>>)

\* the engine settles a generateContent call
TranslationSettles(f) ==
  /\ f.stage = "translate"
  /\ ~Draining
  /\ ~Pending
  /\ \E ok \in BOOLEAN, t \in Translations :
       /\ Becomes(translated(World, f, ok, t))
       /\ event' = Event("translated", f.obj, NoFrame, ok)
  /\ UNCHANGED <<sessionId, wsState, nAudio, nCommands, stopSeen>>

StopResumes(f) ==
  /\ f.stage = "returned"
  /\ Becomes(stopResumed(World, f))
  /\ event' = Event("resumed", f.obj, NoFrame, TRUE)
  /\ UNCHANGED <<sessionId, wsState, nAudio, nCommands, stopSeen>>

\* the catch block of the oldest suspended handleMessage call runs
CatchRuns(f) ==
  /\ f.stage = "thrown"
  /\ f.n = 1
  /\ Becomes(caught(World, f))
  /\ event' = Event("caught", f.obj, NoFrame, TRUE)
  /\ UNCHANGED <<sessionId, wsState, nAudio, nCommands, stopSeen>>

Engine ==
  \E f \in flights :
    \/ TranscriptionSettles(f)
    \/ TranslationSettles(f)
    \/ StopResumes(f)

\* one client connection; its session id is one value of generateSessionId
Clients == {"c1"}
ClientIds == {"id1"}

Next ==
  \/ \E c \in Clients, id \in ClientIds : handleConnection(c, id)
  \/ \E c \in Clients : ReceiveCommand(c)
  \/ \E c \in Clients : ReceiveAudio(c)
  \/ \E c \in Clients : Close(c)
  \/ \E c \in Clients : Error(c)
  \/ Engine
  \/ \E f \in flights : CatchRuns(f)

Spec == Init /\ [][Next]_vars

\* The scenario of C5: one client sends start, FlushThreshold binary frames
\* that do not start with '{', then stop; the engine context is established
\* and every engine call succeeds with a transcript that is not blank.
ScenarioConnect == \E id \in SessionIds : handleConnection("c1", id)

ScenarioStart ==
  /\ nCommands = 0
  /\ nAudio = 0
  /\ handleMessage("c1", CommandFrame("start", ""), TRUE)
  /\ nCommands' = 1
  /\ UNCHANGED nAudio

ScenarioAudio ==
  /\ nCommands = 1
  /\ nAudio < FlushThreshold
  /\ \E b \in AudioFirstChars : handleMessage("c1", AudioFrame(b, nAudio + 1), TRUE)
  /\ nAudio' = nAudio + 1
  /\ UNCHANGED nCommands

ScenarioStop ==
  /\ nCommands = 1
  /\ nAudio = FlushThreshold
  /\ handleMessage("c1", CommandFrame("stop", ""), TRUE)
  /\ nCommands' = 2
  /\ UNCHANGED nAudio

ScenarioEngine ==
  \E f \in flights, t \in Transcripts :
    /\ Trim(t) # <<>>
    /\ TranscriptionSettlesWith(f, TRUE, t)

ScenarioNext ==
  \/ ScenarioConnect
  \/ ScenarioStart
  \/ ScenarioAudio
  \/ ScenarioStop
  \/ ScenarioEngine

SpecScenario == Init /\ [][ScenarioNext]_vars

\* Several connections: every connection in Conns can be made, and
\* generateSessionId can return any value of SessionIds for each of them.
\* The clients send start, stop and setLanguage commands and at most
\* MaxMultiAudio audio frames in all.
MultiFrames ==
  {CommandFrame("start", ""), CommandFrame("stop", ""),
   CommandFrame("setLanguage", "es")}

MultiCommand(c) ==
  /\ nCommands < MaxCommands
  /\ \E m \in MultiFrames : handleMessage(c, m, TRUE)
  /\ nCommands' = nCommands + 1
  /\ UNCHANGED nAudio

MultiAudio(c) ==
  /\ nAudio < MaxMultiAudio
  /\ handleMessage(c, AudioFrame("a", nAudio + 1), TRUE)
  /\ nAudio' = nAudio + 1
  /\ UNCHANGED nCommands

NextMulti ==
  \/ \E c \in Conns, id \in SessionIds : handleConnection(c, id)
  \/ \E c \in Conns : MultiCommand(c)
  \/ \E c \in Conns : MultiAudio(c)
  \/ \E c \in Conns : Close(c)
  \/ \E c \in Conns : Error(c)
  \/ Engine

SpecMulti == Init /\ [][NextMulti]_vars

\* One call of the translators' transcribeAudio, for every runtime mode,
\* argument shape and engine behaviour.
InitTranscribe ==
  /\ ServerInit
  /\ stream = NoStream
  /\ gateway \in {Call(production, isBuffer, hasFormat, live, single) :
                    production \in BOOLEAN, isBuffer \in BOOLEAN,
                    hasFormat \in BOOLEAN, live \in LiveOutcomes,
                    single \in SingleOutcomes}

\* transcribeAudio up to its await of geminiLive.transcribeAudio
transcribeAudio ==
  /\ gateway.pc = "idle"
  /\ gateway' =
       IF ~gateway.isBuffer \/ ~gateway.hasFormat
       THEN [gateway EXCEPT !.pc = "done", !.thrown = TRUE]
       ELSE [gateway EXCEPT !.pc = "live", !.tried = {"live"}]
  /\ UNCHANGED <<serverVars, stream>>

\* geminiLive.transcribeAudio settles: its text is returned trimmed, or the
\* catch block calls gemini.transcribeAudio
LiveSettles ==
  /\ gateway.pc = "live"
  /\ LET r == geminiLiveTranscribeAudio(gateway.production, gateway.live)
         failed == IF r.failed THEN {"live"} ELSE {}
     IN
     gateway' =
       IF r.thrown
       THEN [gateway EXCEPT !.pc = "single", !.tried = @ \cup {"single"},
                            !.failed = failed]
       ELSE [gateway EXCEPT !.pc = "done", !.text = Trim(r.text),
                            !.failed = failed]
  /\ UNCHANGED <<serverVars, stream>>

\* gemini.transcribeAudio settles: its text is returned trimmed, or its error
\* leaves transcribeAudio
SingleSettles ==
  /\ gateway.pc = "single"
  /\ LET r == geminiTranscribeAudio(gateway.production, gateway.single)
         failed == IF r.failed THEN {"single"} ELSE {}
     IN
     gateway' =
       IF r.thrown
       THEN [gateway EXCEPT !.pc = "done", !.thrown = TRUE,
                            !.failed = @ \cup failed]
       ELSE [gateway EXCEPT !.pc = "done", !.text = Trim(r.text),
                            !.failed = @ \cup failed]
  /\ UNCHANGED <<serverVars, stream>>

NextTranscribe ==
  \/ transcribeAudio
  \/ LiveSettles
  \/ SingleSettles

SpecTranscribe == InitTranscribe /\ [][NextTranscribe]_vars

\* One call of translate, for every shape of its arguments and every
\* behaviour of the engine.
TextArguments == {UndefinedText, <<>>, <<"h", "i">>}
TargetArguments == {Undefined, "", "es", "xx"}
SourceArguments == {Undefined, "", "auto", "en", "xx"}

InitTranslate ==
  /\ ServerInit
  /\ stream = NoStream
  /\ gateway \in {TranslateCall(text, targetLang, sourceLang, engine) :
                    text \in TextArguments, targetLang \in TargetArguments,
                    sourceLang \in SourceArguments, engine \in ContentOutcomes}

\* translate up to its await of gemini.generateContent, or to its throw
translate ==
  /\ gateway.pc = "idle"
  /\ LET validation ==
           validateTranslationRequest([text |-> gateway.text,
                                       targetLang |-> gateway.targetLang,
                                       sourceLang |-> gateway.sourceLang])
     IN
     gateway' =
       IF ~validation.isValid
       THEN [gateway EXCEPT !.pc = "done", !.thrown = TRUE,
                            !.errors = validation.errors]
       ELSE [gateway EXCEPT !.pc = "awaiting",
                            !.prompts = Append(@, Prompt(gateway.text,
                                                         gateway.targetLang,
                                                         gateway.sourceLang))]
  /\ UNCHANGED <<serverVars, stream>>

\* gemini.generateContent settles: translate returns translation.trim(), or
\* the rejection leaves translate
ContentSettles ==
  /\ gateway.pc = "awaiting"
  /\ gateway' =
       IF gateway.engine.ok
       THEN [gateway EXCEPT !.pc = "done", !.result = Trim(gateway.engine.text)]
       ELSE [gateway EXCEPT !.pc = "done", !.thrown = TRUE]
  /\ UNCHANGED <<serverVars, stream>>

NextTranslate ==
  \/ translate
  \/ ContentSettles

SpecTranslate == InitTranslate /\ [][NextTranslate]_vars

\* One call of translateStream, by a consumer that has or has not attached
\* an 'error' listener to the returned stream: the input stream delivers at
\* most MaxFragments chunks, never more than MaxRunning translations behind,
\* and then ends or fails; the engine's generators advance in any order.
InitStream ==
  /\ ServerInit
  /\ gateway = NoCall
  /\ \E listening \in BOOLEAN : stream = [NewStream EXCEPT !.listening = listening]

Data ==
  /\ stream.pc = "open"
  /\ Len(stream.fragments) < MaxFragments
  /\ Cardinality(stream.running) < MaxRunning
  /\ \E chunk \in Fragments : stream' = onData(stream, chunk)
  /\ UNCHANGED <<serverVars, gateway>>

End ==
  /\ stream.pc = "open"
  /\ stream' = onEnd(stream)
  /\ UNCHANGED <<serverVars, gateway>>

InputError ==
  /\ stream.pc = "open"
  /\ stream' = onError(stream)
  /\ UNCHANGED <<serverVars, gateway>>

\* a generator yields its next chunk
Yields ==
  /\ \E g \in stream.running :
       /\ g.left # <<>>
       /\ stream' = yielded(stream, g)
  /\ UNCHANGED <<serverVars, gateway>>

\* a generator returns after its last chunk
Finishes ==
  /\ \E g \in stream.running :
       /\ g.left = <<>>
       /\ stream' = finished(stream, g, FALSE)
  /\ UNCHANGED <<serverVars, gateway>>

\* a generator throws
Throws ==
  /\ \E g \in stream.running : stream' = finished(stream, g, TRUE)
  /\ UNCHANGED <<serverVars, gateway>>

NextStream ==
  \/ Data
  \/ End
  \/ InputError
  \/ Yields
  \/ Finishes
  \/ Throws

SpecStream == InitStream /\ [][NextStream]_vars

\* The completion predicate tried on every text of at most MaxLen
\* characters: the text arrives as the first chunk of the input stream.
FirstData ==
  /\ stream.pc = "open"
  /\ stream.fragments = <<>>
  /\ \E chunk \in Texts : stream' = onData(stream, chunk)
  /\ UNCHANGED <<serverVars, gateway>>

NextComplete ==
  \/ FirstData
  \/ End
  \/ Yields
  \/ Finishes

SpecComplete == InitStream /\ [][NextComplete]_vars

\* ---------------------------------- one connection, language set in flight
\* the client sends setLanguage only while a flush of its session is in
\* flight; its other commands are start and stop
LanguageCommand(c) ==
  /\ nCommands < MaxCommands
  /\ \E type \in {"start", "stop"} : handleMessage(c, CommandFrame(type, ""), TRUE)
  /\ nCommands' = nCommands + 1
  /\ UNCHANGED nAudio

InFlightSetLanguage(c) ==
  /\ nCommands < MaxCommands
  /\ \E f \in flights : f.obj = c /\ f.stage = "transcribe"
  /\ \E l \in Languages : handleMessage(c, CommandFrame("setLanguage", l), TRUE)
  /\ nCommands' = nCommands + 1
  /\ UNCHANGED nAudio

NextLanguage ==
  \/ \E c \in Clients, id \in ClientIds : handleConnection(c, id)
  \/ \E c \in Clients : LanguageCommand(c)
  \/ \E c \in Clients : InFlightSetLanguage(c)
  \/ \E c \in Clients : ReceiveAudio(c)
  \/ Engine

SpecLanguage == Init /\ [][NextLanguage]_vars

\* ------------------------------------------------------ claim vocabulary
Last(q) == q[Len(q)]

\* the session object o is an entry of the registry
InRegistry(o) == \E id \in SessionIds : activeSessions[id] = o

\* the session object that a frame arriving on connection c is handled on
Target(c) == IF sessionId[c] = None THEN None ELSE activeSessions[sessionId[c]]

\* this step handled a frame (the frame is event'.msg, the connection
\* event'.conn)
MessageStep ==
  /\ event'.kind = "message"
  /\ nAudio' + nCommands' = nAudio + nCommands + 1

\* this step handled a frame holding the JSON command of the given type
CommandStep(type) ==
  /\ MessageStep
  /\ IsCommandFrame(event'.msg)
  /\ event'.msg.json.valid
  /\ event'.msg.json.type = type

\* this step ran the continuation of an engine call
SettleStep(kind) ==
  /\ event'.kind = kind
  /\ flights' # flights
  /\ nAudio' + nCommands' = nAudio + nCommands
  /\ wsState' = wsState

\* this step sent the messages msgs, in that order, on the socket of session
\* o and nothing on any other socket
SentOn(o, msgs) == outbound' = [outbound EXCEPT ![o] = @ \o msgs]

\* the messages this step sent on the socket of session o
Sent(o) == SubSeq(outbound'[o], Len(outbound[o]) + 1, Len(outbound'[o]))

RECURSIVE Payloads(_)
\* the payloads of a sequence of submissions, concatenated in order
Payloads(subs) ==
  IF subs = <<>> THEN <<>> ELSE Head(subs).payload \o Payloads(Tail(subs))

\* ------------------------------------------------------------------- C1
\* C1 (as claimed): while a session is in the registry, every fragment ever
\* appended to its audio buffer is either still in the buffer or part of a
\* payload submitted to the engine, in order: concat(appended) =
\* concat(submitted payloads) followed by the pending buffer.
C1_NoFragmentLost ==
  \A o \in Conns :
    InRegistry(o) =>
      BufferConcat(appended[o]) =
        Payloads(submitted[o]) \o BufferConcat(session[o].audioChunks)

\* ------------------------------------------------------------------- C2
\* C2 (as claimed): a binary frame received while the session is Idle is
\* ignored: nothing is appended, no engine call is started, no outbound
\* message is sent and the session is unchanged.
C2_IdleAudioIgnored ==
  [][(/\ MessageStep
      /\ ~event'.msg.isString
      /\ Target(event'.conn) # None
      /\ ~session[Target(event'.conn)].isTranscribing)
     => UNCHANGED <<session, outbound, flights, appended, submitted,
                    activeSessions>>]_vars

\* ------------------------------------------------------------------- C3
\* the step that appends a fragment to o's buffer: it submits the whole
\* buffer iff the append makes it FlushThreshold long
C3_AppendStep(o) ==
  LET chunks == Append(session[o].audioChunks, Last(appended'[o])) IN
  IF Len(chunks) = FlushThreshold
  THEN /\ submitted'[o] = Append(submitted[o],
                                 [payload |-> BufferConcat(chunks),
                                  count |-> FlushThreshold, by |-> "audio"])
       /\ session'[o].audioChunks = <<>>
       /\ Cardinality(flights') = Cardinality(flights) + 1
  ELSE /\ submitted'[o] = submitted[o]
       /\ flights' = flights
       /\ session'[o].audioChunks = chunks

\* C3: an append starts a flush exactly when it brings the buffer to
\* FlushThreshold fragments (the flush then takes the whole buffer and the
\* buffer is left empty; any other append starts no engine call), every
\* threshold-triggered payload holds exactly FlushThreshold fragments, and
\* between handlers the buffer holds fewer than FlushThreshold fragments.
C3_ThresholdFlush ==
  /\ [](\A o \in Conns :
          /\ Len(session[o].audioChunks) < FlushThreshold
          /\ \A i \in 1..Len(submitted[o]) :
               submitted[o][i].by = "audio" =>
                 submitted[o][i].count = FlushThreshold)
  /\ [][\A o \in Conns : appended'[o] # appended[o] => C3_AppendStep(o)]_vars

\* a threshold flush has happened and a later fragment waits in the buffer
C3_Witness ==
  \E o \in Conns :
    /\ \E i \in 1..Len(submitted[o]) : submitted[o][i].by = "audio"
    /\ session[o].audioChunks # <<>>

\* ------------------------------------------------------------------- C4
ResultTypes == {"transcription", "translation"}

\* the session object was in the registry and has been removed
Removed(o) == sessionId[o] # None /\ ~InRegistry(o)

\* C4 (as claimed): when the stop handler is about to resume after its
\* flush, the result message of that flush is the last message sent and
\* isTranscribing is still true.
C4_ResultThenStopped ==
  \A f \in flights :
    f.stage = "returned" =>
      /\ session[f.obj].isTranscribing
      /\ outbound[f.obj] # <<>>
      /\ Last(outbound[f.obj]).type \in ResultTypes

\* a stop on a transcribing session with a non-empty buffer submits the whole
\* buffer and sends nothing yet; isTranscribing stays true
C4_StopSubmits ==
  LET o == Target(event'.conn) IN
  (/\ CommandStep("stop")
   /\ o # None
   /\ session[o].isTranscribing
   /\ session[o].audioChunks # <<>>)
  => /\ submitted'[o] =
          Append(submitted[o],
                 [payload |-> BufferConcat(session[o].audioChunks),
                  count |-> Len(session[o].audioChunks), by |-> "stop"])
     /\ session'[o] = [session[o] EXCEPT !.audioChunks = <<>>]
     /\ outbound' = outbound
     /\ \E f \in flights' \ flights :
          f.obj = o /\ f.by = "stop" /\ f.stage = "transcribe"

\* while the stop's flush is outstanding, the step that takes it on emits
\* result messages only (none, one, or the transcription and the report of a
\* translation that could not be started), never `stopped`, and leaves the
\* session alone
C4_FlushSettles ==
  \A f \in flights :
    (f.by = "stop" /\ f.stage \in {"transcribe", "translate"} /\ f \notin flights')
    => /\ \E g \in flights' \ flights :
            g.obj = f.obj /\ g.n = f.n /\ g.stage \in {"translate", "returned"}
       /\ session' = session
       /\ SentOn(f.obj, Sent(f.obj))
       /\ Len(Sent(f.obj)) <= 2
       /\ \A i \in 1..Len(Sent(f.obj)) : Sent(f.obj)[i].type \in ResultTypes

\* the stop handler resumes only after that: it sets isTranscribing false,
\* empties the buffer and sends `stopped`
C4_StopResumes ==
  \A f \in flights :
    f.stage = "returned"
    => /\ f \notin flights'
       /\ session' = [session EXCEPT ![f.obj].isTranscribing = FALSE,
                                     ![f.obj].audioChunks = <<>>]
       /\ outbound' = [outbound EXCEPT ![f.obj] = Append(@, StoppedMsg)]

\* C4 (amended): a stop received while Transcribing with a non-empty buffer
\* submits that buffer (even below the threshold); every message the flush
\* produces is sent before the stop handler sets isTranscribing false and
\* sends `stopped`.
C4_StopFlushesFirst ==
  [][C4_StopSubmits /\ C4_FlushSettles /\ C4_StopResumes]_vars

\* a stop flushed fewer than FlushThreshold fragments, the transcription was
\* sent, and the stop handler then sent `stopped`
C4_Witness ==
  /\ event.kind = "resumed"
  /\ LET o == event.conn IN
     /\ \E i \in 1..Len(submitted[o]) :
          submitted[o][i].by = "stop" /\ submitted[o][i].count < FlushThreshold
     /\ Len(outbound[o]) >= 2
     /\ outbound[o][Len(outbound[o]) - 1].type = "transcription"
     /\ Last(outbound[o]) = StoppedMsg
     /\ ~session[o].isTranscribing

\* ------------------------------------------------------------------- C5
IsPrefix(p, q) == Len(p) <= Len(q) /\ p = SubSeq(q, 1, Len(p))

\* the scenario's inputs have all been handled and no engine call is pending
ScenarioDone == nCommands = 2 /\ flights = {}

\* the transcription message of the scenario's one non-blank transcript
ScenarioTranscription == TranscriptionMsg(<<"h", "i">>)

\* C5 (as claimed): after start, FlushThreshold fragments and stop, the
\* messages sent are session, started, transcription, stopped, in this order.
C5_StartedTranscriptionStopped ==
  ScenarioDone =>
    outbound["c1"] = <<SessionMsg(sessionId["c1"]), StartedMsg,
                       ScenarioTranscription, StoppedMsg>>

\* C5 (amended): in the scenario exactly one flush is started, by the
\* threshold (the stop finds the buffer empty and starts none), and the
\* messages sent are session, started, then one transcription and one
\* stopped: the transcription first when its engine call completes before
\* the stop is received, `stopped` first otherwise.
C5_ScenarioOutbound ==
  LET q == outbound["c1"]
      head == <<SessionMsg(sessionId["c1"]), StartedMsg>>
      inOrder == head \o <<ScenarioTranscription, StoppedMsg>>
      stoppedFirst == head \o <<StoppedMsg, ScenarioTranscription>>
  IN
  /\ IsPrefix(q, inOrder) \/ IsPrefix(q, stoppedFirst)
  /\ ScenarioDone => q \in {inOrder, stoppedFirst}
  /\ \A i \in 1..Len(submitted["c1"]) :
       /\ i = 1
       /\ submitted["c1"][i].by = "audio"
       /\ nAudio = FlushThreshold
  /\ (nCommands = 2 /\ flights # {}) => Last(q) = StoppedMsg
  /\ (nCommands < 2 /\ q # <<>>) => Last(q) # StoppedMsg

\* the scenario has run to its end with the engine call completing after
\* the stop: `stopped` was sent before the transcription
C5_Witness ==
  /\ ScenarioDone
  /\ Len(outbound["c1"]) = 4
  /\ outbound["c1"][3] = StoppedMsg
  /\ outbound["c1"][4] = ScenarioTranscription

\* ------------------------------------------------------------------- C6
\* the step that handles the rejection of a flush's engine call
C6_FailureStep ==
  (SettleStep("transcribed") /\ ~event'.ok)
  => LET o == event'.conn IN
     /\ outbound' = [outbound EXCEPT ![o] = Append(@, TranscriptionErrorMsg)]
     /\ session' = session
     /\ activeSessions' = activeSessions
     /\ \E f \in flights :
          /\ f.obj = o /\ f.stage = "transcribe"
          /\ flights' \in {flights \ {f},
                           (flights \ {f}) \cup {[f EXCEPT !.stage = "returned"]}}

\* C6: when the engine call of a flush fails, exactly one transcription
\* message with error: true and the placeholder text is sent for it, the
\* flush is over, the session object (isTranscribing included) and the
\* registry are unchanged; and as long as a connection is open its session
\* is in the registry, so later messages reach their handlers.
C6_FailedFlush ==
  /\ [][C6_FailureStep]_vars
  /\ [](\A c \in Conns : wsState[c] = "open" => Target(c) = c)

\* a flush has just failed on an open, transcribing session
C6_Witness ==
  /\ event.kind = "transcribed"
  /\ ~event.ok
  /\ wsState[event.conn] = "open"
  /\ session[event.conn].isTranscribing
  /\ Last(outbound[event.conn]) = TranscriptionErrorMsg

\* ------------------------------------------------------------------- C7
\* C7 (as claimed): once a session has been removed from the registry, no
\* transcription or translation message is sent on its socket.
C7_NoResultAfterRemoval ==
  [][\A o \in Conns :
       Removed(o) =>
         \A i \in (Len(outbound[o]) + 1)..Len(outbound'[o]) :
           outbound'[o][i].type \notin ResultTypes]_vars

\* ------------------------------------------------------------------- C8
\* C8 (as claimed): once a session has been removed from the registry, no
\* engine call (transcription or translation) is started for it.
C8_NoEngineCallAfterRemoval ==
  [][\A g \in flights' \ flights :
       g.stage \in {"transcribe", "translate"} => ~Removed(g.obj)]_vars

\* ------------------------------------------------------------------- C9
\* C9 (as claimed): after a stop reached a Transcribing session, and until a
\* start command arrives, no fragment is appended to its buffer and nothing
\* is submitted to the engine for it.
C9_StopCancelsIngestion ==
  [][\A o \in Conns :
       stopSeen[o] =>
         /\ appended'[o] = appended[o]
         /\ submitted'[o] = submitted[o]]_vars

\* ------------------------------------------------------------------ C10
\* the step that handles a setLanguage command
C10_SetLanguageStep ==
  LET o == Target(event'.conn)
      l == event'.msg.json.language
  IN
  (CommandStep("setLanguage") /\ o # None)
  => /\ session' = [session EXCEPT ![o].targetLanguage = IF l = "" THEN @ ELSE l]
     /\ (session[o].targetLanguage = l => session' = session)
     /\ outbound' = IF l = "" THEN outbound
                    ELSE [outbound EXCEPT ![o] = Append(@, LanguageSetMsg(l))]
     /\ UNCHANGED <<flights, activeSessions, appended, submitted, nChats>>

\* C10: a setLanguage command changes nothing but targetLanguage (and sends
\* languageSet): isTranscribing, the audio buffer, the flushes in flight and
\* the registry are as before; the resulting session depends only on the
\* language given, so a second identical setLanguage changes nothing.
C10_SetLanguageOnlyLanguage == [][C10_SetLanguageStep]_vars

\* the same setLanguage was applied twice to a transcribing session with
\* fragments pending and a flush in flight
C10_Witness ==
  /\ event.kind = "message"
  /\ event.msg.json.type = "setLanguage"
  /\ LET o == event.conn IN
     /\ session[o].isTranscribing
     /\ session[o].audioChunks # <<>>
     /\ \E f \in flights : f.obj = o
     /\ Len(outbound[o]) >= 2
     /\ Last(outbound[o]) = LanguageSetMsg("es")
     /\ outbound[o][Len(outbound[o]) - 1] = LanguageSetMsg("es")

\* ------------------------------------------------------------------ C11
\* the continuation of a flush whose engine call resolved with a transcript
\* that is not blank: the transcription is sent, and the translation call is
\* started exactly when the target language is not 'en'
C11_TranscribedStep ==
  (SettleStep("transcribed") /\ event'.ok /\ Trim(event'.msg.data) # <<>>)
  => LET o == event'.conn
         t == Trim(event'.msg.data)
         calls == {g \in flights' \ flights : g.stage = "translate"}
     IN
     IF session[o].targetLanguage = "en"
     THEN calls = {} /\ SentOn(o, <<TranscriptionMsg(t)>>)
     ELSE \/ /\ SentOn(o, <<TranscriptionMsg(t)>>)
             /\ \E g \in calls :
                  /\ calls = {g}
                  /\ g.obj = o
                  /\ g.text = t
                  /\ g.lang = session[o].targetLanguage
          \/ \* the call could not be set up: its failure is reported at once
             /\ calls = {}
             /\ SentOn(o, <<TranscriptionMsg(t),
                            TranslationErrorMsg(t, session[o].targetLanguage)>>)

\* the continuation of a translation call: one translation message, with the
\* transcript and the language the call was made for
C11_TranslatedStep ==
  \A f \in flights :
    (f.stage = "translate" /\ f \notin flights')
    => \E m \in {Last(outbound'[f.obj])} :
         /\ outbound' = [outbound EXCEPT ![f.obj] = Append(@, m)]
         /\ m.type = "translation"
         /\ m.sourceText = f.text
         /\ m.targetLanguage = f.lang
         /\ m.error = ~event'.ok

\* translation calls and translation messages have no other origin
C11_NoOtherTranslation ==
  /\ \A g \in flights' \ flights :
       g.stage = "translate" => SettleStep("transcribed") /\ g.lang # "en"
  /\ \A o \in Conns :
       \A i \in (Len(outbound[o]) + 1)..Len(outbound'[o]) :
         outbound'[o][i].type = "translation"
         => \/ SettleStep("translated")
            \/ /\ SettleStep("transcribed")
               /\ event'.conn = o
               /\ outbound'[o][i].error
               /\ session[o].targetLanguage # "en"

\* C11: when a flush succeeds with a non-empty transcript and the session's
\* target language (as last set by setLanguage, read when the transcript
\* arrives) is not 'en', the transcription message is sent and a translation
\* call is pending whose settling sends one translation message with
\* sourceText = that transcript and targetLanguage = that language; when the
\* target language is 'en' no translation call is made and no translation
\* message is sent.
C11_TranslationFollows ==
  [][C11_TranscribedStep /\ C11_TranslatedStep /\ C11_NoOtherTranslation]_vars

\* after setLanguage 'es' a flush produced a transcription and then its
\* translation
C11_Witness ==
  /\ event.kind = "translated"
  /\ event.ok
  /\ LET o == event.conn
         n == Len(outbound[o])
     IN
     /\ n >= 3
     /\ \E i \in 1..n : outbound[o][i] = LanguageSetMsg("es")
     /\ outbound[o][n - 1] = TranscriptionMsg(<<"h", "i">>)
     /\ outbound[o][n] =
          TranslationMsg(<<"h", "o", "l", "a">>, <<"h", "i">>, "es")

\* ------------------------------------------------------------------ C12
\* C12 (as claimed): every flush whose engine call succeeds sends exactly one
\* transcription message carrying the trimmed transcript, whatever the
\* transcript is.
C12_AlwaysOneTranscription ==
  [][(SettleStep("transcribed") /\ event'.ok)
     => LET o == event'.conn IN
        outbound' = [outbound EXCEPT
                       ![o] = Append(@, TranscriptionMsg(Trim(event'.msg.data)))]]_vars

\* C12 (amended): a flush whose engine call succeeds sends exactly one
\* transcription message, carrying the trimmed transcript, when the trimmed
\* transcript is not empty; when the transcript is empty or blank it sends
\* nothing, starts no translation call and is over.
C12_TranscriptionUnlessBlank ==
  [][(SettleStep("transcribed") /\ event'.ok)
     => LET o == event'.conn
            t == Trim(event'.msg.data)
        IN
        IF t # <<>>
        THEN /\ SentOn(o, Sent(o))
             /\ Len(Sent(o)) \in {1, 2}
             /\ Sent(o)[1] = TranscriptionMsg(t)
             /\ Len(Sent(o)) = 2 => Sent(o)[2].type = "translation"
             /\ t = TrimStart(t) /\ t = TrimEnd(t)
        ELSE /\ outbound' = outbound
             /\ session' = session
             /\ \A g \in flights' \ flights : g.stage = "returned"]_vars

\* a flush of a transcribing session has just succeeded with a blank
\* transcript, and the last message sent is still `started`
C12_Witness ==
  /\ event.kind = "transcribed"
  /\ event.ok
  /\ event.msg.data = <<SP, NL>>
  /\ session[event.conn].isTranscribing
  /\ Last(outbound[event.conn]) = StartedMsg

\* ------------------------------------------------------------------ C13
CommandTypes == {"start", "stop", "setLanguage"}

\* C13 (as claimed): a text frame that is not JSON, a command of unknown
\* type and a setLanguage without a language are each answered with one
\* `error` message; the session and the registry are unchanged.
C13_MalformedReported ==
  [][LET o == Target(event'.conn)
         json == event'.msg.json
     IN
     (/\ MessageStep
      /\ event'.msg.isString
      /\ o # None
      /\ \/ ~json.valid
         \/ json.type \notin CommandTypes
         \/ json.type = "setLanguage" /\ json.language = "")
     => /\ Len(outbound'[o]) = Len(outbound[o]) + 1
        /\ Last(outbound'[o]).type = "error"
        /\ session' = session
        /\ activeSessions' = activeSessions]_vars

\* ------------------------------------------------------------------ C14
\* C14: a start command handled while the session is transcribing changes
\* nothing: isTranscribing stays true, the buffer keeps its fragments, the
\* chat handle is the same, no engine context is created and no message
\* (so no `started`) is sent.
C14_StartWhileTranscribing ==
  [][LET o == Target(event'.conn) IN
     (CommandStep("start") /\ o # None /\ session[o].isTranscribing)
     => /\ session'[o].isTranscribing
        /\ session'[o].audioChunks = session[o].audioChunks
        /\ session'[o].geminiChat = session[o].geminiChat
        /\ UNCHANGED <<session, outbound, flights, nChats, activeSessions,
                       appended, submitted>>]_vars

\* a start has just been handled on a transcribing session whose buffer
\* holds fragments; `started` was sent once
C14_Witness ==
  /\ event.kind = "message"
  /\ event.msg = CommandFrame("start", "")
  /\ LET o == event.conn IN
     /\ session[o].isTranscribing
     /\ Len(session[o].audioChunks) >= 2
     /\ session[o].geminiChat = 1
     /\ Cardinality({i \in 1..Len(outbound[o]) : outbound[o][i] = StartedMsg}) = 1

\* ------------------------------------------------------------------ C15
\* C15: a stop command handled while the session is idle changes nothing:
\* no engine call is started, no message (so no `stopped`) is sent and the
\* session is as before.
C15_StopWhileIdle ==
  [][LET o == Target(event'.conn) IN
     (CommandStep("stop") /\ o # None /\ ~session[o].isTranscribing)
     => UNCHANGED <<session, outbound, flights, nChats, activeSessions,
                    appended, submitted>>]_vars

\* start, stop and a second stop have been handled: the second stop found
\* the session idle, and `stopped` was sent once
C15_Witness ==
  /\ event.kind = "message"
  /\ event.msg = CommandFrame("stop", "")
  /\ LET o == event.conn IN
     /\ ~session[o].isTranscribing
     /\ outbound[o] = <<SessionMsg(sessionId[o]), StartedMsg, StoppedMsg>>
     /\ nCommands = 3

\* ------------------------------------------------------------------ C16
\* the step that handles a start on an idle session: either the engine
\* context is established (a new chat handle) and the session is
\* transcribing with an empty buffer and `started` is the one message sent,
\* or it is not and the session stays idle, nothing is sent and the catch
\* block that will send the `error` is waiting
C16_StartStep ==
  LET o == Target(event'.conn) IN
  (CommandStep("start") /\ o # None /\ ~session[o].isTranscribing)
  => \/ /\ nChats' = nChats + 1
        /\ session' = [session EXCEPT ![o].isTranscribing = TRUE,
                                      ![o].audioChunks = <<>>,
                                      ![o].geminiChat = nChats + 1]
        /\ outbound' = [outbound EXCEPT ![o] = Append(@, StartedMsg)]
     \/ /\ nChats' = nChats
        /\ session' = [session EXCEPT ![o].audioChunks = <<>>]
        /\ ~session'[o].isTranscribing
        /\ outbound' = outbound
        /\ \E f \in flights' \ flights : f.obj = o /\ f.stage = "thrown"

\* `started` is sent by no other step
C16_StartedOnlyThen ==
  \A o \in Conns :
    \A i \in (Len(outbound[o]) + 1)..Len(outbound'[o]) :
      outbound'[o][i] = StartedMsg
      => /\ CommandStep("start")
         /\ Target(event'.conn) = o
         /\ ~session[o].isTranscribing
         /\ nChats' = nChats + 1

\* C16: a start handled on an idle session, when the engine context is
\* established, sets isTranscribing, leaves the buffer empty and sends exactly
\* one `started`; `started` is sent in no other situation (not when the
\* context cannot be established, not on a transcribing session, not by any
\* other handler).
C16_StartOnIdle == [][C16_StartStep /\ C16_StartedOnlyThen]_vars

\* a session was started, stopped and started again: it is transcribing on
\* its second chat handle with an empty buffer, `started` is the last message
C16_Witness ==
  /\ event.kind = "message"
  /\ event.msg = CommandFrame("start", "")
  /\ LET o == event.conn IN
     /\ session[o].isTranscribing
     /\ session[o].audioChunks = <<>>
     /\ session[o].geminiChat = 2
     /\ Last(outbound[o]) = StartedMsg
     /\ nAudio >= 1

\* ------------------------------------------------------------------ C17
\* C17 (as claimed): the session ids given to different connections differ
\* (whether their sessions are live or removed), so every registry entry is
\* the session of the one connection that holds its id.
C17_FreshIds ==
  /\ \A c, d \in Conns :
       (c # d /\ sessionId[c] # None) => sessionId[c] # sessionId[d]
  /\ \A c \in Conns :
       (sessionId[c] # None /\ activeSessions[sessionId[c]] # None)
       => activeSessions[sessionId[c]] = c

\* ------------------------------------------------------------------ C18
\* C18 (as claimed): the step that handles a close or error of a connection
\* removes its session from the registry, empties its buffer without
\* submitting anything to the engine and sends nothing; and no `stopped` is
\* sent on the socket of a removed session afterwards.
C18_CloseDiscards ==
  [][/\ \A c \in Conns :
          (event'.kind \in {"close", "error"} /\ event'.conn = c
           /\ wsState'[c] # wsState[c] /\ Target(c) = c)
          => /\ ~InRegistry(c)'
             /\ session'[c].audioChunks = <<>>
             /\ submitted' = submitted
             /\ flights' = flights
             /\ outbound' = outbound
     /\ \A o \in Conns :
          Removed(o) =>
            \A i \in (Len(outbound[o]) + 1)..Len(outbound'[o]) :
              outbound'[o][i] # StoppedMsg]_vars

\* ------------------------------------------------------------------ C19
\* C19: on every connection that has been made, the first message sent is
\* the `session` message carrying the id given to the connection, and no
\* later message is a `session` message: it is sent exactly once, before any
\* started, languageSet, transcription, translation, stopped or error.
C19_SessionMessageFirst ==
  \A c \in Conns :
    /\ wsState[c] = "new" => outbound[c] = <<>>
    /\ wsState[c] # "new" =>
         /\ outbound[c] # <<>>
         /\ outbound[c][1] = SessionMsg(sessionId[c])
         /\ \A i \in 2..Len(outbound[c]) : outbound[c][i].type # "session"

\* a connection has been sent its session id and then languageSet, started,
\* transcription, translation and stopped
C19_Witness ==
  \E c \in Conns :
    /\ Len(outbound[c]) >= 6
    /\ outbound[c][1] = SessionMsg(sessionId[c])
    /\ \A t \in {"languageSet", "started", "transcription", "translation",
                 "stopped"} :
         \E i \in 2..Len(outbound[c]) : outbound[c][i].type = t

\* ------------------------------------------------------------------ C20
\* C20: a close or error event whose session id is not in the registry (the
\* session was already removed, as for a close that follows an error) changes
\* no registry entry, no session, sends nothing and starts nothing.
C20_RemoveUnknownIsNoOp ==
  [][\A c \in Conns :
       (/\ event'.kind \in {"close", "error"}
        /\ event'.conn = c
        /\ wsState'[c] # wsState[c]
        /\ Target(c) = None)
       => UNCHANGED <<activeSessions, session, outbound, flights, nChats,
                      appended, submitted>>]_vars

\* the only connection made was started, had an error and then closed: the
\* close found no session
C20_Witness ==
  /\ event.kind = "close"
  /\ ~event.ok
  /\ wsState[event.conn] = "closed"
  /\ \A d \in Conns \ {event.conn} : wsState[d] = "new"
  /\ StartedMsg = Last(outbound[event.conn])

\* ------------------------------------------------------------------ C21
Placeholders == {LivePlaceholder, GeminiPlaceholder}

\* C21 (as claimed): a call of transcribeAudio whose live path failed has
\* attempted the single-shot request, in production and in non-production
\* mode; and a call returns a placeholder transcript only when both the live
\* path and the single-shot path have failed.
C21_SingleShotOnLiveError ==
  gateway.pc = "done" =>
    /\ "live" \in gateway.failed => "single" \in gateway.tried
    /\ (~gateway.thrown /\ gateway.text \in Placeholders)
       => gateway.failed = {"live", "single"}

\* ------------------------------------------------------------------ C22
\* C22 (as claimed): when the live path and the single-shot path both fail,
\* a call of transcribeAudio in production mode ends with an error and no
\* placeholder transcript, and in non-production mode returns a placeholder
\* transcript and no error.
C22_DoubleFailureByMode ==
  (/\ gateway.pc = "done"
   /\ gateway.isBuffer /\ gateway.hasFormat
   /\ ~gateway.live.ok
   /\ gateway.single.kind # "ok")
  => IF gateway.production
     THEN gateway.thrown /\ gateway.text \notin Placeholders
     ELSE ~gateway.thrown /\ gateway.text \in Placeholders

\* ------------------------------------------------------------------ C23
RECURSIVE StripTrailingWhitespace(_)
StripTrailingWhitespace(t) ==
  IF t # <<>> /\ Last(t) \in Whitespace
  THEN StripTrailingWhitespace(SubSeq(t, 1, Len(t) - 1))
  ELSE t

\* the last character of the text that is not whitespace is '.', '!' or '?'
EndsSentence(t) ==
  LET core == StripTrailingWhitespace(t) IN
  core # <<>> /\ Last(core) \in Terminators

\* C23: the completion predicate holds for the buffered text (the text is
\* released by the data handler) exactly when the last non-whitespace
\* character of the text is '.', '!' or '?'; it does not hold for any other
\* text, the empty text and whitespace-only texts included (the text stays
\* in the buffer).
C23_CompletionPredicate ==
  (stream.pc = "open" /\ Len(stream.fragments) = 1)
  => LET text == stream.fragments[1] IN
     IF EndsSentence(text)
     THEN stream.released = <<text>> /\ stream.textBuffer = <<>>
     ELSE stream.released = <<>> /\ stream.textBuffer = text

\* a text with whitespace after its '?' was found complete and released
C23_Witness ==
  /\ stream.pc = "open"
  /\ stream.fragments = <<<<"?", SP, NL>>>>
  /\ stream.released = <<<<"?", SP, NL>>>>

\* ------------------------------------------------------------------ C24
RECURSIVE Concat(_)
\* the texts of a sequence, concatenated in order
Concat(texts) ==
  IF texts = <<>> THEN <<>> ELSE Head(texts) \o Concat(Tail(texts))

\* this step released a text for translation
ReleaseStep == stream'.released # stream.released

\* the release is that of a data event (the whole buffer after the append,
\* which the predicate holds for) or that of the end of the input (a
\* non-empty remainder)
C24_ReleaseCause ==
  \/ /\ stream'.pc = "open"
     /\ Len(stream'.fragments) = Len(stream.fragments) + 1
     /\ LET text == stream.textBuffer \o Last(stream'.fragments) IN
        /\ isComplete(text)
        /\ stream'.released = Append(stream.released, text)
  \/ /\ stream.pc = "open" /\ stream'.pc = "ended"
     /\ stream'.fragments = stream.fragments
     /\ stream.textBuffer # <<>>
     /\ stream'.released = Append(stream.released, stream.textBuffer)

\* C24 (as claimed): a text is released only by a data event whose append
\* makes the predicate hold for the whole buffer, or by the end of the input
\* for a non-empty remainder; every release leaves the buffer empty; and when
\* the input has ended normally the released units, concatenated, are the
\* input fragments, concatenated.
C24_ReleaseEmptiesBuffer ==
  /\ [][ReleaseStep => (C24_ReleaseCause /\ stream'.textBuffer = <<>>)]_vars
  /\ [](stream.pc = "ended" => Concat(stream.released) = Concat(stream.fragments))

\* C24 (amended): a text is released only by a data event whose append makes
\* the predicate hold for the whole buffer, or by the end of the input for a
\* non-empty remainder; a release by a data event empties the buffer, the
\* release at the end of the input leaves the remainder in the buffer; while
\* the input is open the released units followed by the buffer are the input
\* fragments received, and when the input has ended normally the released
\* units, concatenated, are the input fragments, concatenated.
C24_NoFragmentDiscarded ==
  /\ [][ReleaseStep =>
         /\ C24_ReleaseCause
         /\ stream'.textBuffer = IF stream'.pc = "open" THEN <<>>
                                  ELSE stream.textBuffer]_vars
  /\ [](stream.pc = "open" =>
          Concat(stream.released) \o stream.textBuffer = Concat(stream.fragments))
  /\ [](stream.pc = "ended" => Concat(stream.released) = Concat(stream.fragments))

\* the input delivered a complete sentence and then an incomplete text, and
\* ended: both were released
C24_Witness ==
  /\ stream.pc = "ended"
  /\ stream.fragments = <<<<"b", ".", SP>>, <<"a">>>>
  /\ stream.released = <<<<"b", ".", SP>>, <<"a">>>>

\* ------------------------------------------------------------------ C25
\* the arguments that the claim says are rejected: a missing text, a missing
\* or unsupported target language, a source language that is given and is
\* neither 'auto' nor supported
C25_Rejected ==
  \/ FalsyText(gateway.text)
  \/ gateway.targetLang \notin supportedLanguages
  \/ /\ ~Falsy(gateway.sourceLang)
     /\ gateway.sourceLang \notin supportedLanguages \cup {"auto"}

\* C25: a call of translate with a missing text, a missing or unsupported
\* target language, or an unsupported source language other than 'auto' ends
\* with an error and no engine call; any other call makes exactly one engine
\* call and, when that call resolves, returns its text trimmed (when it
\* rejects, the error leaves translate and there is still one call).
C25_ValidatedBeforeEngine ==
  gateway.pc # "idle" =>
    IF C25_Rejected
    THEN /\ gateway.pc = "done"
         /\ gateway.thrown
         /\ gateway.errors # <<>>
         /\ gateway.prompts = <<>>
    ELSE /\ Len(gateway.prompts) = 1
         /\ gateway.prompts[1].text = gateway.text
         /\ gateway.prompts[1].to = gateway.targetLang
         /\ gateway.pc = "done" =>
              IF gateway.engine.ok
              THEN ~gateway.thrown /\ gateway.result = Trim(gateway.engine.text)
              ELSE gateway.thrown

\* a call with a supported source language has returned the engine's text
\* without its trailing space
C25_Witness ==
  /\ gateway.pc = "done"
  /\ gateway.sourceLang = "en"
  /\ gateway.targetLang = "es"
  /\ gateway.engine.text = <<"h", "o", "l", "a", NL>>
  /\ gateway.result = <<"h", "o", "l", "a">>
  /\ ~gateway.thrown

\* ------------------------------------------------------------------ C26
RECURSIVE IsSubsequence(_, _)
\* p is q with some of its elements left out
IsSubsequence(p, q) ==
  IF p = <<>> THEN TRUE
  ELSE IF q = <<>> THEN FALSE
  ELSE IF Head(p) = Head(q) THEN IsSubsequence(Tail(p), Tail(q))
  ELSE IsSubsequence(p, Tail(q))

\* the frames whose bytes a payload is made of (a frame is two bytes long:
\* its first character and its number)
FramesOf(bytes) ==
  [i \in 1..(Len(bytes) \div 2) |-> <<bytes[2 * i - 1], bytes[2 * i]>>]

RECURSIVE Counts(_)
\* the number of fragments the submissions were made of
Counts(subs) ==
  IF subs = <<>> THEN 0 ELSE Head(subs).count + Counts(Tail(subs))

\* C26: the fragments of the submitted payloads, in submission order and
\* followed by the fragments still buffered, are fragments that were appended,
\* each at most once and in the order they were appended (the frames of a
\* connection are all different, so a fragment submitted twice, or buffered
\* after it was submitted, breaks the order); a submission is never empty.
C26_EachFragmentFlushedOnce ==
  \A o \in Conns :
    /\ IsSubsequence(FramesOf(Payloads(submitted[o])) \o session[o].audioChunks,
                     appended[o])
    /\ Counts(submitted[o]) + Len(session[o].audioChunks) <= Len(appended[o])
    /\ \A i \in 1..Len(submitted[o]) : submitted[o][i].count > 0

\* two buffer generations have been submitted, the first by the threshold
\* and the second by a stop, and a fragment is buffered again
C26_Witness ==
  \E o \in Conns :
    /\ Len(submitted[o]) = 2
    /\ submitted[o][1].count = FlushThreshold
    /\ submitted[o][2].count = 1
    /\ Len(appended[o]) = FlushThreshold + 1

\* ------------------------------------------------------------------ C27
\* the flushes of session o whose sendMessage call is in flight
Outstanding(o) == {f \in flights : f.obj = o /\ f.stage = "transcribe"}

\* the flush whose sendMessage call this step settled
Settled == CHOOSE f \in flights : f.stage = "transcribe" /\ f \notin flights'

\* C27: a binary frame that reaches a transcribing session while a flush of
\* the session is in flight is appended to the buffer, leaves that flush in
\* flight and, when it fills the buffer, starts a further flush next to it;
\* and a flush that settles while an earlier-submitted flush of the session
\* is still in flight sends its message at once (the transcription when the
\* call succeeded with a transcript that is not blank, the error message when
\* it failed), the earlier flush staying in flight.
C27_FlushDoesNotBlock ==
  [][/\ (/\ MessageStep
         /\ ~IsCommandFrame(event'.msg)
         /\ Target(event'.conn) # None
         /\ session[Target(event'.conn)].isTranscribing
         /\ Outstanding(Target(event'.conn)) # {})
        => LET o == Target(event'.conn) IN
           /\ appended'[o] = Append(appended[o], event'.msg.data)
           /\ Outstanding(o) \subseteq flights'
           /\ IF Len(session[o].audioChunks) + 1 = FlushThreshold
              THEN /\ \E g \in flights' \ flights :
                        g.obj = o /\ g.stage = "transcribe" /\ g.by = "audio"
                   /\ Len(submitted'[o]) = Len(submitted[o]) + 1
              ELSE /\ flights' = flights
                   /\ session'[o].audioChunks =
                        Append(session[o].audioChunks, event'.msg.data)
     /\ (/\ SettleStep("transcribed")
         /\ \E g \in Outstanding(event'.conn) : g.n < Settled.n)
        => LET o == event'.conn
               t == Trim(event'.msg.data)
           IN
           /\ Outstanding(o) \ {Settled} \subseteq flights'
           /\ SentOn(o, Sent(o))
           /\ IF ~event'.ok THEN Sent(o) = <<TranscriptionErrorMsg>>
              ELSE IF t # <<>> THEN Sent(o) # <<>> /\ Sent(o)[1] = TranscriptionMsg(t)
              ELSE Sent(o) = <<>>]_vars

\* the second flush of a session has just succeeded and sent its
\* transcription while the first one is still in flight
C27_Witness ==
  \E o \in Conns :
    /\ event.kind = "transcribed"
    /\ event.conn = o
    /\ event.ok
    /\ Len(submitted[o]) = 2
    /\ \E g \in flights : g.obj = o /\ g.n = 1 /\ g.stage = "transcribe"
    /\ Last(outbound[o]) = TranscriptionMsg(Trim(event.msg.data))
    /\ Trim(event.msg.data) # <<>>

\* ------------------------------------------------------------------ C28
\* the steps that handle a frame (its catch block included), the settling
\* of an engine call, a resumed stop, a close or an error
HandlerKinds ==
  {"message", "caught", "transcribed", "translated", "resumed", "close", "error"}

\* C28 (as claimed): a step that handles a frame, a flush completion or a
\* close of one connection's session leaves every other session that is in
\* the registry as it was: its targetLanguage, isTranscribing, audio buffer
\* and outbound messages do not change and it stays in the registry.
C28_OtherSessionsUntouched ==
  [][event'.kind \in HandlerKinds
     => \A o \in Conns \ {event'.conn} :
          InRegistry(o) =>
            /\ session'[o] = session[o]
            /\ outbound'[o] = outbound[o]
            /\ InRegistry(o)']_vars

\* ------------------------------------------------------------------ C29
\* C29: when the translation call of a flush fails, the transcription of the
\* flush has been sent already and the step sends exactly one message, a
\* translation with error: true, the placeholder text, the transcript as
\* sourceText and the language the call was made for; the flush is then over
\* (no further message, in particular no error-flagged transcription, is
\* sent for it), and the session object and the registry are unchanged.  The
\* same holds when the call cannot even be set up: the step that sent the
\* transcription sends that one translation message right after it.
C29_FailedTranslation ==
  /\ [][\A f \in flights :
          (SettleStep("translated") /\ ~event'.ok
           /\ f.stage = "translate" /\ f \notin flights')
          => LET o == f.obj IN
             /\ \E i \in 1..Len(outbound[o]) : outbound[o][i] = TranscriptionMsg(f.text)
             /\ SentOn(o, <<[type |-> "translation",
                             text |-> TranslationErrorText,
                             sourceText |-> f.text,
                             targetLanguage |-> f.lang,
                             error |-> TRUE]>>)
             /\ TranslationErrorText \notin Translations
             /\ flights' \in {flights \ {f},
                              (flights \ {f}) \cup
                                {[f EXCEPT !.stage = "returned", !.text = <<>>,
                                           !.lang = ""]}}
             /\ session' = session
             /\ activeSessions' = activeSessions]_vars
  /\ [][\A f \in flights :
          (SettleStep("transcribed") /\ f.stage = "transcribe"
           /\ f \notin flights' /\ Len(Sent(f.obj)) > 1)
          => LET o == f.obj
                 t == Trim(event'.msg.data)
             IN
             /\ event'.ok
             /\ SentOn(o, <<TranscriptionMsg(t),
                            [type |-> "translation",
                             text |-> TranslationErrorText,
                             sourceText |-> t,
                             targetLanguage |-> session[o].targetLanguage,
                             error |-> TRUE]>>)
             /\ flights' \in {flights \ {f},
                              (flights \ {f}) \cup {[f EXCEPT !.stage = "returned"]}}
             /\ session' = session
             /\ activeSessions' = activeSessions]_vars

\* the translation of a flush has just failed on a session that is in the
\* registry: its transcription is followed by the error-flagged translation
C29_Witness ==
  \E o \in Conns :
    /\ event.kind = "translated"
    /\ event.conn = o
    /\ ~event.ok
    /\ InRegistry(o)
    /\ Len(outbound[o]) >= 2
    /\ outbound[o][Len(outbound[o]) - 1].type = "transcription"
    /\ ~outbound[o][Len(outbound[o]) - 1].error
    /\ Last(outbound[o]).type = "translation"
    /\ Last(outbound[o]).error
    /\ Last(outbound[o]).sourceText = outbound[o][Len(outbound[o]) - 1].text

\* ------------------------------------------------------------------ C30
\* C30: between handler runs, a session that is not transcribing has an empty
\* audio buffer (whether it is idle from the beginning, was stopped, failed
\* to start or was closed).
C30_IdleBufferEmpty ==
  \A o \in Conns :
    ~session[o].isTranscribing => session[o].audioChunks = <<>>

\* a stop has just resumed on a session in the registry and has discarded a
\* fragment that arrived while its flush was in flight
C30_Witness ==
  \E o \in Conns :
    /\ event.kind = "resumed"
    /\ event.conn = o
    /\ InRegistry(o)
    /\ ~session[o].isTranscribing
    /\ session[o].audioChunks = <<>>
    /\ Len(appended[o]) > Counts(submitted[o])

\* ------------------------------------------------------------------ C31
\* C31 (as claimed): on every session's outbound channel each `stopped` has
\* a `started` before it with no other `stopped` in between, so `stopped`
\* messages never outnumber `started` messages and at most one `stopped`
\* lies between two consecutive `started` messages.
C31_StartedStoppedAlternate ==
  \A o \in Conns :
    \A i \in 1..Len(outbound[o]) :
      outbound[o][i] = StoppedMsg =>
        \E j \in 1..(i - 1) :
          /\ outbound[o][j] = StartedMsg
          /\ \A k \in (j + 1)..(i - 1) : outbound[o][k] # StoppedMsg

\* ------------------------------------------------------------------ C32
\* this step handled a start on an idle session in the registry and the
\* engine context was not established (no chat handle was created)
FailedStartStep ==
  /\ CommandStep("start")
  /\ Target(event'.conn) # None
  /\ ~session[Target(event'.conn)].isTranscribing
  /\ nChats' = nChats

\* the catch blocks that wait to report a failed start of session o
Catches(o) == {f \in flights : f.obj = o /\ f.stage = "thrown"}

\* C32: a start whose engine context cannot be established leaves the
\* session idle with an empty buffer, sends no `started` (nothing is sent in
\* that step), starts no engine call and leaves the registry and every other
\* field of the session as they were; its error is then reported once: the
\* step in which the catch block runs sends exactly one message, an `error`,
\* and changes neither the session nor the registry, so the session is still
\* there for a later start.  Until the `error` is sent the session stays in
\* the registry unless an error of its socket removes it.
C32_FailedStart ==
  /\ [][\A o \in Conns :
          (FailedStartStep /\ o = Target(event'.conn))
          => /\ ~session'[o].isTranscribing
             /\ session'[o].audioChunks = <<>>
             /\ session'[o].targetLanguage = session[o].targetLanguage
             /\ outbound' = outbound
             /\ activeSessions' = activeSessions
             /\ submitted' = submitted
             /\ Cardinality(Catches(o)') = Cardinality(Catches(o)) + 1
             /\ \A f \in flights' \ flights : f.stage = "thrown"]_vars
  /\ [][\A o \in Conns :
          Cardinality(Catches(o)') < Cardinality(Catches(o))
          => /\ Cardinality(Catches(o)') = Cardinality(Catches(o)) - 1
             /\ outbound' = [outbound EXCEPT ![o] = Append(@, ErrorMsg("EngineError"))]
             /\ session' = session
             /\ activeSessions' = activeSessions
             /\ submitted' = submitted]_vars
  /\ [](\A f \in flights :
          f.stage = "thrown" => InRegistry(f.obj) \/ wsState[f.obj] = "errored")

\* a start failed and the next start of the same session succeeded: the
\* `error` is followed by `started` and the session is transcribing
C32_Witness ==
  \E o \in Conns :
    /\ InRegistry(o)
    /\ session[o].isTranscribing
    /\ Len(outbound[o]) >= 3
    /\ outbound[o][Len(outbound[o]) - 1] = ErrorMsg("EngineError")
    /\ Last(outbound[o]) = StartedMsg

\* ------------------------------------------------------------------ C33
\* C33: (under SpecLanguage, where the language is set only while a flush is
\* in flight) a session has its initial language 'en' until its first flush
\* is submitted; a setLanguage handled while flushes are in flight changes
\* the session's language and leaves those flushes as they are; and when the
\* first flush succeeds with a transcript that is not blank, a translation
\* call is started exactly when the session's language at that moment is not
\* 'en', for that language, which is the targetLanguage of the translation
\* message sent when the call settles (or at once, when the call cannot be
\* set up).
C33_LanguageAtCompletion ==
  /\ [](\A o \in Conns :
          submitted[o] = <<>> => session[o].targetLanguage = DefaultLanguage)
  /\ [][(CommandStep("setLanguage") /\ event'.msg.json.language # ""
         /\ Target(event'.conn) # None)
        => /\ session'[Target(event'.conn)].targetLanguage =
                event'.msg.json.language
           /\ flights' = flights]_vars
  /\ [][(SettleStep("transcribed") /\ event'.ok
         /\ Trim(event'.msg.data) # <<>> /\ Settled.n = 1)
        => IF session[event'.conn].targetLanguage = "en"
           THEN \A g \in flights' : g.stage # "translate" \/ g \in flights
           ELSE \/ [Settled EXCEPT !.stage = "translate",
                                   !.text = Trim(event'.msg.data),
                                   !.lang = session[event'.conn].targetLanguage]
                     \in flights'
                \/ Sent(event'.conn) =
                     <<TranscriptionMsg(Trim(event'.msg.data)),
                       TranslationErrorMsg(Trim(event'.msg.data),
                                           session[event'.conn].targetLanguage)>>]_vars
  /\ [][\A f \in flights :
         (SettleStep("translated") /\ f.stage = "translate" /\ f \notin flights')
         => /\ Last(outbound'[f.obj]).type = "translation"
            /\ Last(outbound'[f.obj]).targetLanguage = f.lang]_vars

\* the first flush of a session was submitted under 'en', the language was
\* set to 'es' while it was in flight, and its translation to 'es' has just
\* been sent
C33_Witness ==
  \E o \in Conns :
    /\ event.kind = "translated"
    /\ event.conn = o
    /\ Len(submitted[o]) = 1
    /\ Len(outbound[o]) >= 4
    /\ outbound[o][Len(outbound[o]) - 2] = LanguageSetMsg("es")
    /\ outbound[o][Len(outbound[o]) - 1].type = "transcription"
    /\ Last(outbound[o]).type = "translation"
    /\ Last(outbound[o]).targetLanguage = "es"

\* ------------------------------------------------------------------ C34
\* C34 (as claimed): no translated chunk is pushed to the output stream
\* after the end-of-stream marker.
C34_NoChunkAfterEnd ==
  \A i, j \in 1..Len(stream.output) :
    (i < j /\ stream.output[i] = EndMarker) => stream.output[j].kind # "chunk"

\* ------------------------------------------------------------------ C35
\* C35 (as claimed): the translated chunks are pushed in the order of the
\* released text units: every chunk of an earlier unit comes before every
\* chunk of a later unit.
C35_SentenceOrder ==
  \A i, j \in 1..Len(stream.output) :
    (i < j /\ stream.output[i].kind = "chunk" /\ stream.output[j].kind = "chunk")
    => stream.output[i].unit <= stream.output[j].unit

====
